---- MODULE Spec2Model ----
(***************************************************************************)
(* A model of dedit (src/src/main.rs): the terminal session of main(), the *)
(* cursor/viewport arithmetic of CursorController, the key dispatch of     *)
(* Editor::process_keypress and the frame composition of Output.           *)
(*                                                                         *)
(* The frame buffer and the terminal output are sequences of tokens: one   *)
(* token per character pushed and one per crossterm command queued.        *)
(* usize arithmetic is modelled on the naturals; the two places where the  *)
(* width matters (the subtraction and the `as u16` casts in                 *)
(* refresh_screen) are modelled with their overflow behaviour.             *)
(* The terminal is assumed to report at least one row and one column.      *)
(***************************************************************************)
EXTENDS Integers, Sequences, FiniteSets, TLC

\* ------------------------------------------------------------------------
\* Bounds of the model
\* ------------------------------------------------------------------------
MaxScreenRows == 3
MaxScreenCols == 3
MaxRowCount == 4
MaxCursorX == 3

\* ------------------------------------------------------------------------
\* Characters, tokens, files
\* ------------------------------------------------------------------------
\* the modulus of the `as u16` casts of refresh_screen
U16 == 65536

\* number of bytes of a character in UTF-8 ("e'" stands for a two-byte
\* character such as U+00E9; every other character used here is ASCII)
Utf8Len(c) == IF c = "e'" THEN 2 ELSE 1

RECURSIVE len(_)
\* str::len: the length of a string in bytes
len(s) == IF s = <<>> THEN 0 ELSE Utf8Len(Head(s)) + len(Tail(s))

\* str::is_char_boundary
is_char_boundary(s, n) == \E k \in 0..Len(s) : len(SubSeq(s, 1, k)) = n

\* &s[..n] for n on a character boundary
slice_to(s, n) == SubSeq(s, 1, CHOOSE k \in 0..Len(s) : len(SubSeq(s, 1, k)) = n)

Tok(t, c, x, y) == [t |-> t, c |-> c, x |-> x, y |-> y]
Ch(c) == Tok("Char", c, 0, 0)
Hide == Tok("Hide", "", 0, 0)
Show == Tok("Show", "", 0, 0)
MoveTo(x, y) == Tok("MoveTo", "", x, y)
ClearUntilNewLine == Tok("ClearUntilNewLine", "", 0, 0)

\* push_str: one token per character
push_str(content, s) == content \o [i \in 1..Len(s) |-> Ch(s[i])]

\* format!("Dana's Baby Editor {}", "0.0.1")
greeting_text == <<"D", "a", "n", "a", "'", "s", " ", "B", "a", "b", "y", " ",
                   "E", "d", "i", "t", "o", "r", " ", "0", ".", "0", ".", "1">>

\* lines a loaded file is made of
SampleLines == << <<>>, <<"a">>, <<"a", "b", "c", "d">>, <<"e'", "a">> >>

\* the lines of a file of n lines (contents.lines() of from_file)
File(n, r) == [i \in 1..n |-> SampleLines[((i + r) % Len(SampleLines)) + 1]]
Files == {File(n, r) : n \in 0..MaxRowCount, r \in 0..(Len(SampleLines) - 1)}

\* ------------------------------------------------------------------------
\* Key events
\* ------------------------------------------------------------------------
Chars == {"h", "j", "k", "l", "q", "x"}
KeyCodes == {[kind |-> "Char", ch |-> c] : c \in Chars} \cup
            {[kind |-> k, ch |-> ""] : k \in {"Up", "Down", "Left", "Right",
                 "PageUp", "PageDown", "Home", "End", "Esc"}}
KeyModifiers == {"NONE", "SHIFT", "CONTROL", "CONTROL|SHIFT"}
KeyEvents == [code : KeyCodes, modifiers : KeyModifiers]
NoKey == [code |-> [kind |-> "None", ch |-> ""], modifiers |-> "NONE"]

ch_to_dir(ch) ==
    CASE ch = "h" -> "Left"
      [] ch = "j" -> "Down"
      [] ch = "k" -> "Up"
      [] ch = "l" -> "Right"
      [] OTHER -> "unimplemented"

arrow_to_dir(kind) ==
    CASE kind = "Up" -> "Up"
      [] kind = "Down" -> "Down"
      [] kind = "Left" -> "Left"
      [] kind = "Right" -> "Right"
      [] OTHER -> "unimplemented"

\* a mutant of match_key: the letter arm also takes 'x'
match_key_x(k) ==
    CASE k.code.kind = "Char" /\ k.code.ch = "q" /\ k.modifiers = "CONTROL" -> "Quit"
      [] k.code.kind = "Char" /\ k.code.ch \in {"h", "j", "k", "l", "x"}
            /\ k.modifiers = "NONE" -> ch_to_dir(k.code.ch)
      [] k.code.kind \in {"Up", "Down", "Left", "Right"}
            /\ k.modifiers = "NONE" -> arrow_to_dir(k.code.kind)
      [] k.code.kind = "PageUp" /\ k.modifiers = "NONE" -> "TopScreen"
      [] k.code.kind = "PageDown" /\ k.modifiers = "NONE" -> "BottomScreen"
      [] k.code.kind = "Home" /\ k.modifiers = "NONE" -> "Home"
      [] k.code.kind = "End" /\ k.modifiers = "NONE" -> "End"
      [] OTHER -> "Noop"

\* a mutant of match_key: Quit is taken whenever the control modifier is
\* among the modifiers
match_key_contains(k) ==
    CASE k.code.kind = "Char" /\ k.code.ch = "q"
            /\ k.modifiers \in {"CONTROL", "CONTROL|SHIFT"} -> "Quit"
      [] k.code.kind = "Char" /\ k.code.ch \in {"h", "j", "k", "l"}
            /\ k.modifiers = "NONE" -> ch_to_dir(k.code.ch)
      [] k.code.kind \in {"Up", "Down", "Left", "Right"}
            /\ k.modifiers = "NONE" -> arrow_to_dir(k.code.kind)
      [] k.code.kind = "PageUp" /\ k.modifiers = "NONE" -> "TopScreen"
      [] k.code.kind = "PageDown" /\ k.modifiers = "NONE" -> "BottomScreen"
      [] k.code.kind = "Home" /\ k.modifiers = "NONE" -> "Home"
      [] k.code.kind = "End" /\ k.modifiers = "NONE" -> "End"
      [] OTHER -> "Noop"

\* the arm of the match of process_keypress a key event selects: "Quit"
\* (return Ok(false)), the Direction handed to move_cursor, "unimplemented"
\* (the conversion panicked) or "Noop" (the `_ => {}` arm)
match_key(k) ==
    CASE k.code.kind = "Char" /\ k.code.ch = "q" /\ k.modifiers = "CONTROL" -> "Quit"
      [] k.code.kind = "Char" /\ k.code.ch \in {"h", "j", "k", "l"}
            /\ k.modifiers = "NONE" -> ch_to_dir(k.code.ch)
      [] k.code.kind \in {"Up", "Down", "Left", "Right"}
            /\ k.modifiers = "NONE" -> arrow_to_dir(k.code.kind)
      [] k.code.kind = "PageUp" /\ k.modifiers = "NONE" -> "TopScreen"
      [] k.code.kind = "PageDown" /\ k.modifiers = "NONE" -> "BottomScreen"
      [] k.code.kind = "Home" /\ k.modifiers = "NONE" -> "Home"
      [] k.code.kind = "End" /\ k.modifiers = "NONE" -> "End"
      [] OTHER -> "Noop"

\* ------------------------------------------------------------------------
\* CursorController
\* ------------------------------------------------------------------------
Min(a, b) == IF a < b THEN a ELSE b
saturating_sub(a, b) == IF a < b THEN 0 ELSE a - b

CursorController_new(size) ==
    [cursor_x |-> 0, cursor_y |-> 0, screen_cols |-> size[1],
     screen_rows |-> size[2], row_offset |-> 0]

\* a mutant of scroll: the cursor is kept on the last row of the window
scroll_pin_bottom(cc) ==
    IF cc.cursor_y >= cc.screen_rows - 1
    THEN [cc EXCEPT !.row_offset = cc.cursor_y - (cc.screen_rows - 1)]
    ELSE [cc EXCEPT !.row_offset = 0]

\* a mutant of scroll: the window moves one row too late
scroll_late(cc) ==
    LET off == Min(cc.row_offset, cc.cursor_y)
    IN  IF cc.cursor_y > off + cc.screen_rows
        THEN [cc EXCEPT !.row_offset = cc.cursor_y - (cc.screen_rows - 1)]
        ELSE [cc EXCEPT !.row_offset = off]

\* a mutant of scroll: the window is not snapped up to the cursor
scroll_no_min(cc) ==
    IF cc.cursor_y >= cc.row_offset + cc.screen_rows
    THEN [cc EXCEPT !.row_offset = cc.cursor_y - (cc.screen_rows - 1)]
    ELSE cc

scroll(cc) ==
    LET off == Min(cc.row_offset, cc.cursor_y)
    IN  IF cc.cursor_y >= off + cc.screen_rows
        THEN [cc EXCEPT !.row_offset = cc.cursor_y - (cc.screen_rows - 1)]
        ELSE [cc EXCEPT !.row_offset = off]

\* a mutant of move_cursor: Down is allowed one row further
move_cursor_down_le(cc, dir, number_of_rows) ==
    CASE dir = "Up" -> [cc EXCEPT !.cursor_y = saturating_sub(cc.cursor_y, 1)]
      [] dir = "Down" -> IF cc.cursor_y <= number_of_rows
                         THEN [cc EXCEPT !.cursor_y = cc.cursor_y + 1]
                         ELSE cc
      [] dir = "Left" -> [cc EXCEPT !.cursor_x = saturating_sub(cc.cursor_x, 1)]
      [] dir = "Right" -> [cc EXCEPT !.cursor_x = cc.cursor_x + 1]
      [] dir = "TopScreen" -> [cc EXCEPT !.cursor_y = 0]
      [] dir = "BottomScreen" -> [cc EXCEPT !.cursor_y = cc.screen_rows - 1]
      [] dir = "Home" -> [cc EXCEPT !.cursor_x = 0]
      [] dir = "End" -> [cc EXCEPT !.cursor_x = cc.screen_cols - 1]

\* a mutant of move_cursor: Down is not clamped
move_cursor_down_unguarded(cc, dir, number_of_rows) ==
    CASE dir = "Up" -> [cc EXCEPT !.cursor_y = saturating_sub(cc.cursor_y, 1)]
      [] dir = "Down" -> [cc EXCEPT !.cursor_y = cc.cursor_y + 1]
      [] dir = "Left" -> [cc EXCEPT !.cursor_x = saturating_sub(cc.cursor_x, 1)]
      [] dir = "Right" -> [cc EXCEPT !.cursor_x = cc.cursor_x + 1]
      [] dir = "TopScreen" -> [cc EXCEPT !.cursor_y = 0]
      [] dir = "BottomScreen" -> [cc EXCEPT !.cursor_y = cc.screen_rows - 1]
      [] dir = "Home" -> [cc EXCEPT !.cursor_x = 0]
      [] dir = "End" -> [cc EXCEPT !.cursor_x = cc.screen_cols - 1]

\* a mutant of move_cursor: BottomScreen goes to the last row of the window
move_cursor_bottom_window(cc, dir, number_of_rows) ==
    CASE dir = "Up" -> [cc EXCEPT !.cursor_y = saturating_sub(cc.cursor_y, 1)]
      [] dir = "Down" -> IF cc.cursor_y < number_of_rows
                         THEN [cc EXCEPT !.cursor_y = cc.cursor_y + 1]
                         ELSE cc
      [] dir = "Left" -> [cc EXCEPT !.cursor_x = saturating_sub(cc.cursor_x, 1)]
      [] dir = "Right" -> [cc EXCEPT !.cursor_x = cc.cursor_x + 1]
      [] dir = "TopScreen" -> [cc EXCEPT !.cursor_y = 0]
      [] dir = "BottomScreen" -> [cc EXCEPT !.cursor_y = cc.row_offset + cc.screen_rows - 1]
      [] dir = "Home" -> [cc EXCEPT !.cursor_x = 0]
      [] dir = "End" -> [cc EXCEPT !.cursor_x = cc.screen_cols - 1]

\* a mutant of move_cursor: BottomScreen goes one row too far
move_cursor_bottom_rows(cc, dir, number_of_rows) ==
    CASE dir = "Up" -> [cc EXCEPT !.cursor_y = saturating_sub(cc.cursor_y, 1)]
      [] dir = "Down" -> IF cc.cursor_y < number_of_rows
                         THEN [cc EXCEPT !.cursor_y = cc.cursor_y + 1]
                         ELSE cc
      [] dir = "Left" -> [cc EXCEPT !.cursor_x = saturating_sub(cc.cursor_x, 1)]
      [] dir = "Right" -> [cc EXCEPT !.cursor_x = cc.cursor_x + 1]
      [] dir = "TopScreen" -> [cc EXCEPT !.cursor_y = 0]
      [] dir = "BottomScreen" -> [cc EXCEPT !.cursor_y = cc.screen_rows]
      [] dir = "Home" -> [cc EXCEPT !.cursor_x = 0]
      [] dir = "End" -> [cc EXCEPT !.cursor_x = cc.screen_cols - 1]

move_cursor(cc, dir, number_of_rows) ==
    CASE dir = "Up" -> [cc EXCEPT !.cursor_y = saturating_sub(cc.cursor_y, 1)]
      [] dir = "Down" -> IF cc.cursor_y < number_of_rows
                         THEN [cc EXCEPT !.cursor_y = cc.cursor_y + 1]
                         ELSE cc
      [] dir = "Left" -> [cc EXCEPT !.cursor_x = saturating_sub(cc.cursor_x, 1)]
      [] dir = "Right" -> [cc EXCEPT !.cursor_x = cc.cursor_x + 1]
      [] dir = "TopScreen" -> [cc EXCEPT !.cursor_y = 0]
      [] dir = "BottomScreen" -> [cc EXCEPT !.cursor_y = cc.screen_rows - 1]
      [] dir = "Home" -> [cc EXCEPT !.cursor_x = 0]
      [] dir = "End" -> [cc EXCEPT !.cursor_x = cc.screen_cols - 1]

\* ------------------------------------------------------------------------
\* Output: frame composition
\* ------------------------------------------------------------------------
\* the placeholder row of draw_rows
greeting_row(screen_cols) ==
    LET greeting == IF Len(greeting_text) > screen_cols
                    THEN SubSeq(greeting_text, 1, screen_cols)
                    ELSE greeting_text
        padding == (screen_cols - Len(greeting)) \div 2
        spaces == IF padding # 0 THEN padding - 1 ELSE 0
    IN  (IF padding # 0 THEN <<"~">> ELSE <<>>)
          \o [i \in 1..spaces |-> " "] \o greeting

\* a mutant of draw_row: the placeholder is put on the middle row
draw_row_half(j, size, row_offset, rows) ==
    LET screen_cols == size[1]
        screen_rows == size[2]
        buffer_row == j + row_offset
    IN  IF buffer_row >= Len(rows)
        THEN IF Len(rows) = 0 /\ j = screen_rows \div 2
             THEN [panic |-> FALSE, text |-> greeting_row(screen_cols)]
             ELSE [panic |-> FALSE, text |-> <<"~">>]
        ELSE LET row == rows[buffer_row + 1]
                 n == Min(len(row), screen_cols)
             IN  IF is_char_boundary(row, n)
                 THEN [panic |-> FALSE, text |-> slice_to(row, n)]
                 ELSE [panic |-> TRUE, text |-> <<>>]

\* what one iteration of the loop of draw_rows pushes before the
\* clear-to-end-of-line: [panic, text]
draw_row(j, size, row_offset, rows) ==
    LET screen_cols == size[1]
        screen_rows == size[2]
        buffer_row == j + row_offset
    IN  IF buffer_row >= Len(rows)
        THEN IF Len(rows) = 0 /\ j = screen_rows \div 3
             THEN [panic |-> FALSE, text |-> greeting_row(screen_cols)]
             ELSE [panic |-> FALSE, text |-> <<"~">>]
        ELSE LET row == rows[buffer_row + 1]
                 n == Min(len(row), screen_cols)
             IN  IF is_char_boundary(row, n)
                 THEN [panic |-> FALSE, text |-> slice_to(row, n)]
                 ELSE [panic |-> TRUE, text |-> <<>>]

RECURSIVE draw_rows_break_always(_, _, _, _, _)
\* a mutant of draw_rows_from: a line break follows the last row too
draw_rows_break_always(j, content, size, row_offset, rows) ==
    IF j >= size[2]
    THEN [panic |-> FALSE, content |-> content]
    ELSE LET r == draw_row(j, size, row_offset, rows)
         IN  IF r.panic
             THEN [panic |-> TRUE, content |-> content]
             ELSE draw_rows_break_always(j + 1,
                    push_str(content, r.text) \o <<ClearUntilNewLine>>
                      \o <<Ch("\r"), Ch("\n")>>,
                    size, row_offset, rows)

RECURSIVE draw_rows_from(_, _, _, _, _)
draw_rows_from(j, content, size, row_offset, rows) ==
    IF j >= size[2]
    THEN [panic |-> FALSE, content |-> content]
    ELSE LET r == draw_row(j, size, row_offset, rows)
         IN  IF r.panic
             THEN [panic |-> TRUE, content |-> content]
             ELSE draw_rows_from(j + 1,
                    push_str(content, r.text) \o <<ClearUntilNewLine>>
                      \o (IF j < size[2] - 1 THEN <<Ch("\r"), Ch("\n")>> ELSE <<>>),
                    size, row_offset, rows)

draw_rows(content, size, row_offset, rows) ==
    draw_rows_from(0, content, size, row_offset, rows)

\* a mutant of cursor_row: the row offset is not subtracted
cursor_row_absolute(y, offset) == y

\* cursor_y - row_offset of refresh_screen; a negative result stands for the
\* usize subtraction overflowing
cursor_row(y, offset) == y - offset

\* `v as u16`: usize is a multiple of 2^16 wide, so a wrapped negative v
\* casts to v modulo 2^16 as well
as_u16(v) == v % U16

\* ------------------------------------------------------------------------
\* State
\* ------------------------------------------------------------------------
VARIABLES
    pc,                \* the position of main
    raw_mode,          \* whether the terminal is in raw mode
    win_size,          \* Output.win_size: <<columns, rows>>
    row_contents,      \* EditorRows.row_contents
    cursor_controller, \* Output.cursor_controller
    editor_contents,   \* EditorContents.content
    key,               \* the key event read_key returned to process_keypress
    written,           \* the writes to stdout of this call of Editor::run
    exit_cause,        \* why main left its loop, "none" while it has not
    unwinding,         \* whether a panic is unwinding the stack
    enabled,           \* successful calls of enable_raw_mode
    disable_calls,     \* calls of disable_raw_mode
    clear_calls,       \* calls of Output::clear_screen
    last_cmd,          \* history: the arm process_keypress took last
    history            \* history: "down", "updown" or "any", the commands applied so far

vars == <<pc, raw_mode, win_size, row_contents, cursor_controller,
          editor_contents, key, written, exit_cause, unwinding, enabled,
          disable_calls, clear_calls, last_cmd, history>>

cursor_x == cursor_controller.cursor_x
cursor_y == cursor_controller.cursor_y
row_offset == cursor_controller.row_offset
screen_rows == cursor_controller.screen_rows
screen_cols == cursor_controller.screen_cols
number_of_rows == Len(row_contents)

Running == pc \in {"refresh_screen", "flush", "poll", "read", "process_keypress"}
Terminated == pc \in {"drop", "clear_screen", "exited"}

\* main up to the first statement with an effect: the guard _clean_up exists
Init ==
    /\ pc = "enable_raw_mode"
    /\ raw_mode = FALSE
    /\ win_size = <<0, 0>>
    /\ row_contents = <<>>
    /\ cursor_controller = CursorController_new(<<0, 0>>)
    /\ editor_contents = <<>>
    /\ key = NoKey
    /\ written = <<>>
    /\ exit_cause = "none"
    /\ unwinding = FALSE
    /\ enabled = 0
    /\ disable_calls = 0
    /\ clear_calls = 0
    /\ last_cmd = "none"
    /\ history = "down"

\* leaving the body of main: by return (an Err of `?`, or Ok) or by a panic
Leave(cause, panic) ==
    /\ pc' = "drop"
    /\ exit_cause' = cause
    /\ unwinding' = panic

\* terminal::enable_raw_mode()?
enable_raw_mode ==
    /\ pc = "enable_raw_mode"
    /\ \E ok \in BOOLEAN :
         IF ok
         THEN /\ raw_mode' = TRUE
              /\ enabled' = enabled + 1
              /\ pc' = "new"
              /\ UNCHANGED <<exit_cause, unwinding>>
         ELSE /\ Leave("startup", FALSE)
              /\ UNCHANGED <<raw_mode, enabled>>
    /\ UNCHANGED <<win_size, row_contents, cursor_controller, editor_contents,
                   key, written, disable_calls, clear_calls, last_cmd, history>>

\* Editor::new: Output::new (terminal::size().unwrap(), EditorContents::new,
\* CursorController::new, EditorRows::new)
Editor_new ==
    /\ pc = "new"
    /\ \/ \E c \in 1..MaxScreenCols, r \in 1..MaxScreenRows, f \in Files :
            /\ win_size' = <<c, r>>
            /\ cursor_controller' = CursorController_new(<<c, r>>)
            /\ row_contents' = f
            /\ editor_contents' = <<>>
            /\ pc' = "refresh_screen"
            /\ UNCHANGED <<exit_cause, unwinding>>
       \/ \* the size query failed, or the file could not be read
          /\ Leave("startup", TRUE)
          /\ UNCHANGED <<win_size, cursor_controller, row_contents, editor_contents>>
    /\ UNCHANGED <<raw_mode, key, written, enabled, disable_calls, clear_calls,
                   last_cmd, history>>

\* Output::refresh_screen up to the flush: scroll, the queued commands and
\* draw_rows
refresh_screen ==
    /\ pc = "refresh_screen"
    /\ LET cc == scroll(cursor_controller)
           head == editor_contents \o <<Hide, MoveTo(0, 0)>>
           rows == draw_rows(head, win_size, cc.row_offset, row_contents)
           y == cursor_row(cc.cursor_y, cc.row_offset)
       IN  /\ cursor_controller' = cc
           /\ IF rows.panic
              THEN /\ editor_contents' = rows.content
                   /\ Leave("panic", TRUE)
              ELSE \* a subtraction that overflows panics with overflow
                   \* checks and wraps without
                   \E checks \in BOOLEAN :
                     IF y < 0 /\ checks
                     THEN /\ editor_contents' = rows.content
                          /\ Leave("panic", TRUE)
                     ELSE /\ editor_contents' = rows.content \o
                                <<MoveTo(as_u16(cc.cursor_x), as_u16(y)), Show>>
                          /\ pc' = "flush"
                          /\ UNCHANGED <<exit_cause, unwinding>>
    /\ UNCHANGED <<raw_mode, win_size, row_contents, key, written, enabled,
                   disable_calls, clear_calls, last_cmd, history>>

\* a mutant of flush: the content is not cleared
flush_keeps_content ==
    /\ pc = "flush"
    /\ \E write_ok \in BOOLEAN, flush_ok \in BOOLEAN :
         /\ written' = IF write_ok THEN Append(written, editor_contents) ELSE written
         /\ editor_contents' = editor_contents
         /\ IF write_ok /\ flush_ok
            THEN pc' = "poll" /\ UNCHANGED <<exit_cause, unwinding>>
            ELSE Leave("io", FALSE)
    /\ UNCHANGED <<raw_mode, win_size, row_contents, cursor_controller, key,
                   enabled, disable_calls, clear_calls, last_cmd, history>>

\* EditorContents::flush, and the return of refresh_screen
flush ==
    /\ pc = "flush"
    /\ \E write_ok \in BOOLEAN, flush_ok \in BOOLEAN :
         /\ written' = IF write_ok THEN Append(written, editor_contents) ELSE written
         /\ editor_contents' = IF flush_ok THEN <<>> ELSE editor_contents
         /\ IF write_ok /\ flush_ok
            THEN pc' = "poll" /\ UNCHANGED <<exit_cause, unwinding>>
            ELSE Leave("io", FALSE)
    /\ UNCHANGED <<raw_mode, win_size, row_contents, cursor_controller, key,
                   enabled, disable_calls, clear_calls, last_cmd, history>>

\* Reader::read_key: event::poll(2000ms)?
poll ==
    /\ pc = "poll"
    /\ \E r \in {"timeout", "ready", "error"} :
         CASE r = "timeout" -> UNCHANGED <<pc, exit_cause, unwinding>>
           [] r = "ready" -> pc' = "read" /\ UNCHANGED <<exit_cause, unwinding>>
           [] r = "error" -> Leave("io", FALSE)
    /\ UNCHANGED <<raw_mode, win_size, row_contents, cursor_controller,
                   editor_contents, key, written, enabled, disable_calls,
                   clear_calls, last_cmd, history>>

\* a mutant of read: read_key returns on an event that is no key event
read_returns_any ==
    /\ pc = "read"
    /\ \/ \E k \in KeyEvents :
            /\ match_key(k) = "Right" => cursor_x < MaxCursorX
            /\ key' = k
            /\ pc' = "process_keypress"
            /\ UNCHANGED <<exit_cause, unwinding>>
       \/ /\ pc' = "process_keypress"
          /\ UNCHANGED <<key, exit_cause, unwinding>>
       \/ /\ Leave("io", FALSE)
          /\ UNCHANGED key
    /\ UNCHANGED <<raw_mode, win_size, row_contents, cursor_controller,
                   editor_contents, written, enabled, disable_calls,
                   clear_calls, last_cmd, history>>

\* Reader::read_key: event::read()?
read ==
    /\ pc = "read"
    /\ \/ \* a key event: read_key returns it
          \E k \in KeyEvents :
            /\ match_key(k) = "Right" => cursor_x < MaxCursorX
            /\ key' = k
            /\ pc' = "process_keypress"
            /\ UNCHANGED <<exit_cause, unwinding>>
       \/ \* a resize or mouse event: poll again
          /\ pc' = "poll"
          /\ UNCHANGED <<key, exit_cause, unwinding>>
       \/ \* the read failed
          /\ Leave("io", FALSE)
          /\ UNCHANGED key
    /\ UNCHANGED <<raw_mode, win_size, row_contents, cursor_controller,
                   editor_contents, written, enabled, disable_calls,
                   clear_calls, last_cmd, history>>

\* the history of the commands applied so far
record(h, arm) ==
    CASE arm = "Down" -> h
      [] arm = "Up" -> IF h = "down" THEN "updown" ELSE h
      [] OTHER -> "any"

\* a mutant of process_keypress: the next key is read without a render
process_keypress_no_render ==
    /\ pc = "process_keypress"
    /\ LET arm == match_key(key)
       IN  /\ last_cmd' = arm
           /\ CASE arm = "Quit" ->
                     /\ Leave("quit", FALSE)
                     /\ UNCHANGED <<cursor_controller, written, history>>
                [] arm = "unimplemented" ->
                     /\ Leave("panic", TRUE)
                     /\ UNCHANGED <<cursor_controller, written, history>>
                [] arm = "Noop" ->
                     /\ pc' = "poll"
                     /\ written' = <<>>
                     /\ history' = record(history, arm)
                     /\ UNCHANGED <<cursor_controller, exit_cause, unwinding>>
                [] OTHER ->
                     /\ cursor_controller' =
                          move_cursor(cursor_controller, arm, number_of_rows)
                     /\ pc' = "poll"
                     /\ written' = <<>>
                     /\ history' = record(history, arm)
                     /\ UNCHANGED <<exit_cause, unwinding>>
    /\ key' = NoKey
    /\ UNCHANGED <<raw_mode, win_size, row_contents, editor_contents, enabled,
                   disable_calls, clear_calls>>

\* Editor::process_keypress after read_key returned, the return of
\* Editor::run and the loop of main
process_keypress ==
    /\ pc = "process_keypress"
    /\ LET arm == match_key(key)
       IN  /\ last_cmd' = arm
           /\ CASE arm = "Quit" ->
                     /\ Leave("quit", FALSE)
                     /\ UNCHANGED <<cursor_controller, written, history>>
                [] arm = "unimplemented" ->
                     /\ Leave("panic", TRUE)
                     /\ UNCHANGED <<cursor_controller, written, history>>
                [] arm = "Noop" ->
                     /\ pc' = "refresh_screen"
                     /\ written' = <<>>
                     /\ history' = record(history, arm)
                     /\ UNCHANGED <<cursor_controller, exit_cause, unwinding>>
                [] OTHER ->
                     /\ cursor_controller' =
                          move_cursor(cursor_controller, arm, number_of_rows)
                     /\ pc' = "refresh_screen"
                     /\ written' = <<>>
                     /\ history' = record(history, arm)
                     /\ UNCHANGED <<exit_cause, unwinding>>
    /\ key' = NoKey
    /\ UNCHANGED <<raw_mode, win_size, row_contents, editor_contents, enabled,
                   disable_calls, clear_calls>>

\* CleanUp::drop: terminal::disable_raw_mode().expect(..)
drop ==
    /\ pc = "drop"
    /\ disable_calls' = disable_calls + 1
    /\ \E ok \in BOOLEAN :
         IF ok
         THEN /\ raw_mode' = FALSE
              /\ pc' = "clear_screen"
              /\ UNCHANGED unwinding
         ELSE \* expect panics; the process ends
              /\ pc' = "exited"
              /\ unwinding' = TRUE
              /\ UNCHANGED raw_mode
    /\ UNCHANGED <<win_size, row_contents, cursor_controller, editor_contents,
                   key, written, exit_cause, enabled, clear_calls, last_cmd, history>>

\* CleanUp::drop: Output::clear_screen().expect(..)
clear_screen ==
    /\ pc = "clear_screen"
    /\ clear_calls' = clear_calls + 1
    /\ pc' = "exited"
    /\ \E ok \in BOOLEAN : unwinding' = IF ok THEN unwinding ELSE TRUE
    /\ UNCHANGED <<raw_mode, win_size, row_contents, cursor_controller,
                   editor_contents, key, written, exit_cause, enabled,
                   disable_calls, last_cmd, history>>

\* the window widths of the sessions that show the placeholder with and
\* without padding, and the files of at most one line
GreetingCols == {MaxScreenCols, Len(greeting_text) + 4}
ShortFiles == {f \in Files : Len(f) <= 1}

\* Editor::new on a terminal wide enough for the padded placeholder
Editor_new_wide ==
    /\ pc = "new"
    /\ \/ \E c \in GreetingCols, r \in 1..MaxScreenRows, f \in ShortFiles :
            /\ win_size' = <<c, r>>
            /\ cursor_controller' = CursorController_new(<<c, r>>)
            /\ row_contents' = f
            /\ editor_contents' = <<>>
            /\ pc' = "refresh_screen"
            /\ UNCHANGED <<exit_cause, unwinding>>
       \/ \* the size query failed, or the file could not be read
          /\ Leave("startup", TRUE)
          /\ UNCHANGED <<win_size, cursor_controller, row_contents, editor_contents>>
    /\ UNCHANGED <<raw_mode, key, written, enabled, disable_calls, clear_calls,
                   last_cmd, history>>

\* the key events that move right or quit
RightKeys == {k \in KeyEvents : match_key(k) \in {"Right", "Quit"}}

\* Reader::read_key: event::read()?, in a session where only these keys are
\* pressed and the cursor may cross the range of u16
read_right ==
    /\ pc = "read"
    /\ \/ \E k \in RightKeys :
            /\ match_key(k) = "Right" => cursor_x < U16 + 1
            /\ key' = k
            /\ pc' = "process_keypress"
            /\ UNCHANGED <<exit_cause, unwinding>>
       \/ /\ pc' = "poll"
          /\ UNCHANGED <<key, exit_cause, unwinding>>
       \/ /\ Leave("io", FALSE)
          /\ UNCHANGED key
    /\ UNCHANGED <<raw_mode, win_size, row_contents, cursor_controller,
                   editor_contents, written, enabled, disable_calls,
                   clear_calls, last_cmd, history>>

\* a session without a file after U16 - 2 MoveRight commands (move_cursor
\* puts no bound on them), about to render
InitRight ==
    /\ pc = "refresh_screen"
    /\ raw_mode = TRUE
    /\ \E c \in 1..MaxScreenCols, r \in 1..MaxScreenRows :
         /\ win_size = <<c, r>>
         /\ cursor_controller =
               [CursorController_new(<<c, r>>) EXCEPT !.cursor_x = U16 - 2]
    /\ row_contents = <<>>
    /\ editor_contents = <<>>
    /\ key = NoKey
    /\ written = <<>>
    /\ exit_cause = "none"
    /\ unwinding = FALSE
    /\ enabled = 1
    /\ disable_calls = 0
    /\ clear_calls = 0
    /\ last_cmd = "Right"
    /\ history = "any"

Next ==
    \/ enable_raw_mode
    \/ Editor_new
    \/ refresh_screen
    \/ flush
    \/ poll
    \/ read
    \/ process_keypress
    \/ drop
    \/ clear_screen

Spec == Init /\ [][Next]_vars

\* the sessions on a wide terminal
NextWide ==
    \/ enable_raw_mode
    \/ Editor_new_wide
    \/ refresh_screen
    \/ flush
    \/ poll
    \/ read
    \/ process_keypress
    \/ drop
    \/ clear_screen

SpecWide == Init /\ [][NextWide]_vars

\* the sessions in which the cursor is moved right across column 2^16
NextRight ==
    \/ refresh_screen
    \/ flush
    \/ poll
    \/ read_right
    \/ process_keypress
    \/ drop
    \/ clear_screen

SpecRight == InitRight /\ [][NextRight]_vars

\* ------------------------------------------------------------------------
\* Properties
\* ------------------------------------------------------------------------
\* the states from the return of scroll() to the next command
Rendered == pc \in {"flush", "poll", "read", "process_keypress"}

\* C1: at every render, once scroll() has returned, the cursor's row is
\* inside the window: row_offset <= cursor_y < row_offset + screen_rows.
ScrollInvariant ==
    Rendered => /\ row_offset <= cursor_y
                /\ cursor_y < row_offset + screen_rows

\* the window was scrolled down and the cursor is on its last row
ScrollInvariantWitness ==
    /\ pc = "flush"
    /\ row_offset > 0
    /\ cursor_y = row_offset + screen_rows - 1

\* C2: the row handed to the final cursor placement of a frame is
\* cursor_y - row_offset, computed without overflow, and lies in
\* [0, screen_rows).
CursorRowInRange ==
    pc = "flush" =>
        LET place == editor_contents[Len(editor_contents) - 1]
        IN  /\ place.t = "MoveTo"
            /\ cursor_row(cursor_y, row_offset) >= 0
            /\ place.y = cursor_y - row_offset
            /\ place.y >= 0
            /\ place.y < screen_rows

\* a frame composed with the window scrolled and the cursor below its top
CursorRowInRangeWitness ==
    /\ pc = "flush"
    /\ row_offset > 0
    /\ cursor_y > row_offset
    /\ editor_contents[Len(editor_contents) - 1].y = cursor_y - row_offset

\* C3: as long as only MoveDown has been applied since the start,
\* cursor_y <= row_count, and cursor_y = 0 when row_count = 0.
MoveDownClamped ==
    history = "down" => /\ cursor_y <= number_of_rows
                        /\ number_of_rows = 0 => cursor_y = 0

\* MoveDown reached row_count itself, one past the last row
MoveDownClampedWitness ==
    /\ history = "down"
    /\ last_cmd = "Down"
    /\ number_of_rows > 0
    /\ cursor_y = number_of_rows

\* C4: a key is read and applied only after exactly one frame has been
\* flushed since the previous command, no frame has been written while the
\* next one is composed, and the frame being flushed was composed from a
\* scrolled cursor state.
RenderThenKey ==
    /\ pc \in {"poll", "read", "process_keypress"} => Len(written) = 1
    /\ pc \in {"refresh_screen", "flush"} => Len(written) = 0
    /\ pc = "flush" => cursor_controller = scroll(cursor_controller)

\* a second command is about to be applied, after the frame that followed
\* the first
RenderThenKeyWitness ==
    /\ pc = "process_keypress"
    /\ last_cmd \notin {"none", "Noop"}
    /\ Len(written) = 1

\* C5: without an I/O failure the loop is left only by a decoded Quit, which
\* changes no cursor state; any other key keeps the session running; once
\* the loop is left, nothing is written as a frame and no key is read.
QuitOnlyExit ==
    [][/\ (Running /\ ~Running') =>
             \/ exit_cause' = "io"
             \/ /\ pc = "process_keypress"
                /\ match_key(key) = "Quit"
                /\ cursor_controller' = cursor_controller
       /\ (pc = "process_keypress" /\ match_key(key) # "Quit") => Running'
       /\ Terminated => /\ Terminated'
                        /\ written' = written
                        /\ key' = key]_vars

\* the keys of the mapping table of the key-to-command mapping
MappedKeys ==
    {[code |-> [kind |-> "Char", ch |-> "q"], modifiers |-> "CONTROL"]} \cup
    {[code |-> [kind |-> "Char", ch |-> c], modifiers |-> "NONE"] :
        c \in {"h", "j", "k", "l"}} \cup
    {[code |-> [kind |-> k, ch |-> ""], modifiers |-> "NONE"] :
        k \in {"Up", "Down", "Left", "Right", "PageUp", "PageDown", "Home", "End"}}

\* C6: no key event makes process_keypress panic, and a key event that is
\* not in the mapping table changes no cursor state and goes on to the next
\* render.
UnmappedKeyIsNoop ==
    [][pc = "process_keypress" =>
          /\ match_key(key) # "unimplemented"
          /\ ~unwinding'
          /\ exit_cause' # "panic"
          /\ key \notin MappedKeys => /\ cursor_controller' = cursor_controller
                                      /\ pc' = "refresh_screen"]_vars

\* an unmapped key was applied away from the origin
UnmappedKeyIsNoopWitness ==
    /\ pc = "refresh_screen"
    /\ last_cmd = "Noop"
    /\ cursor_y > 0
    /\ cursor_x > 0

\* C7: raw mode is acquired exactly once and released (raw mode disabled,
\* screen cleared) exactly once on every exit path, and the release never
\* runs without a successful acquisition before it.
ReleasedExactlyOnce ==
    /\ enabled <= 1
    /\ disable_calls <= 1
    /\ clear_calls <= 1
    /\ (disable_calls > 0 \/ clear_calls > 0) => enabled = 1
    /\ pc = "exited" => disable_calls = 1 /\ clear_calls = 1

\* whether a token sequence is hide-cursor, move-to-origin, n rows, a cursor
\* placement, show-cursor
IsFrame(f, n) ==
    /\ Len(f) >= 4
    /\ f[1] = Hide
    /\ f[2] = MoveTo(0, 0)
    /\ f[Len(f) - 1].t = "MoveTo"
    /\ f[Len(f)] = Show
    /\ \A i \in 3..(Len(f) - 2) : f[i].t \in {"Char", "ClearUntilNewLine"}
    /\ Cardinality({i \in 3..(Len(f) - 2) : f[i] = ClearUntilNewLine}) = n

\* C8: a render writes to stdout once, at its flush and not before; what it
\* writes is hide-cursor, move-to-origin, screen_rows rows, the cursor
\* placement, show-cursor; and the frame buffer is empty before and after.
OneWritePerFrame ==
    /\ pc \in {"refresh_screen", "flush"} => written = <<>>
    /\ pc = "refresh_screen" => editor_contents = <<>>
    /\ pc \in {"poll", "read", "process_keypress"} =>
          /\ Len(written) = 1
          /\ IsFrame(written[1], screen_rows)
          /\ editor_contents = <<>>

\* the second frame of a session has been written
OneWritePerFrameWitness ==
    /\ pc = "poll"
    /\ last_cmd # "none"
    /\ Len(written) = 1
    /\ editor_contents = <<>>

\* the mapping table: the command of a key event
TableCommand(k) ==
    LET code == k.code
        none == k.modifiers = "NONE"
    IN  CASE code = [kind |-> "Char", ch |-> "q"] /\ k.modifiers = "CONTROL" -> "Quit"
          [] none /\ (code = [kind |-> "Char", ch |-> "h"] \/ code.kind = "Left") -> "MoveLeft"
          [] none /\ (code = [kind |-> "Char", ch |-> "j"] \/ code.kind = "Down") -> "MoveDown"
          [] none /\ (code = [kind |-> "Char", ch |-> "k"] \/ code.kind = "Up") -> "MoveUp"
          [] none /\ (code = [kind |-> "Char", ch |-> "l"] \/ code.kind = "Right") -> "MoveRight"
          [] none /\ code.kind = "PageUp" -> "JumpTop"
          [] none /\ code.kind = "PageDown" -> "JumpBottom"
          [] none /\ code.kind = "Home" -> "JumpHome"
          [] none /\ code.kind = "End" -> "JumpEnd"
          [] OTHER -> "Noop"

\* the Direction of a navigation command
CommandDirection(c) ==
    CASE c = "MoveLeft" -> "Left"
      [] c = "MoveDown" -> "Down"
      [] c = "MoveUp" -> "Up"
      [] c = "MoveRight" -> "Right"
      [] c = "JumpTop" -> "TopScreen"
      [] c = "JumpBottom" -> "BottomScreen"
      [] c = "JumpHome" -> "Home"
      [] c = "JumpEnd" -> "End"

\* C9: process_keypress acts on a key event as the mapping table says: Quit
\* leaves the loop, Noop changes nothing, every other command is applied as
\* its Direction (so a letter and its arrow key give the same next state).
KeyTable ==
    [][pc = "process_keypress" =>
          LET c == TableCommand(key)
          IN  CASE c = "Quit" -> exit_cause' = "quit" /\ pc' = "drop"
                [] c = "Noop" -> /\ cursor_controller' = cursor_controller
                                 /\ pc' = "refresh_screen"
                [] OTHER -> /\ cursor_controller' =
                                 move_cursor(cursor_controller,
                                             CommandDirection(c), number_of_rows)
                            /\ pc' = "refresh_screen"]_vars

\* 'q' with control and shift was applied as Noop, away from the origin
KeyTableWitness ==
    /\ pc = "process_keypress"
    /\ key = [code |-> [kind |-> "Char", ch |-> "q"], modifiers |-> "CONTROL|SHIFT"]
    /\ last_cmd = "BottomScreen"
    /\ cursor_y > 0

\* C10: a render that follows JumpTop from a scrolled window leaves
\* row_offset = 0 and cursor_y = 0.
JumpTopScrollsToTop ==
    [][(/\ pc = "refresh_screen"
        /\ last_cmd = "TopScreen"
        /\ row_offset > 0
        /\ pc' = "flush") => (row_offset' = 0 /\ cursor_y' = 0)]_vars

\* JumpTop was applied with the window scrolled; scroll() is next
JumpTopScrollsToTopWitness ==
    /\ pc = "refresh_screen"
    /\ last_cmd = "TopScreen"
    /\ row_offset > 0
    /\ cursor_y = 0

\* C11: started without a file, as long as only MoveDown has been applied,
\* cursor_y = 0 and row_offset = 0 in every state.
NoFileStaysAtOrigin ==
    (number_of_rows = 0 /\ history = "down") =>
        (cursor_y = 0 /\ row_offset = 0)

\* MoveDown was applied without a file and the next frame was written
NoFileStaysAtOriginWitness ==
    /\ number_of_rows = 0
    /\ history = "down"
    /\ last_cmd = "Down"
    /\ pc = "poll"
    /\ cursor_y = 0

Max(a, b) == IF a > b THEN a ELSE b

\* the cursor state a command other than MoveDown is to produce
Applied(cc, dir) ==
    CASE dir = "Up" -> [cc EXCEPT !.cursor_y = Max(0, cc.cursor_y - 1)]
      [] dir = "Left" -> [cc EXCEPT !.cursor_x = Max(0, cc.cursor_x - 1)]
      [] dir = "Right" -> [cc EXCEPT !.cursor_x = cc.cursor_x + 1]
      [] dir = "TopScreen" -> [cc EXCEPT !.cursor_y = 0]
      [] dir = "BottomScreen" -> [cc EXCEPT !.cursor_y = win_size[2] - 1]
      [] dir = "Home" -> [cc EXCEPT !.cursor_x = 0]
      [] dir = "End" -> [cc EXCEPT !.cursor_x = win_size[1] - 1]

\* C12: MoveUp, MoveLeft, MoveRight, JumpTop, JumpBottom, JumpHome and
\* JumpEnd set exactly their coordinate (JumpBottom to screen_rows - 1
\* whatever row_count and row_offset are, MoveRight with no upper clamp) and
\* change neither the other coordinate, row_offset, the screen size nor the
\* line buffer.
CommandEffects ==
    [][(/\ pc = "process_keypress"
        /\ match_key(key) \in {"Up", "Left", "Right", "TopScreen",
                               "BottomScreen", "Home", "End"}) =>
          /\ cursor_controller' = Applied(cursor_controller, match_key(key))
          /\ row_contents' = row_contents
          /\ win_size' = win_size]_vars

\* JumpBottom was applied in a scrolled window
CommandEffectsWitness ==
    /\ pc = "refresh_screen"
    /\ last_cmd = "BottomScreen"
    /\ row_offset > 0
    /\ cursor_y = screen_rows - 1

RECURSIVE split_rows(_, _, _)
\* the texts of the rows of a frame's row section: the characters before
\* each clear-to-end-of-line, line breaks left out
split_rows(body, cur, acc) ==
    IF body = <<>> THEN acc
    ELSE IF Head(body) = ClearUntilNewLine
         THEN split_rows(Tail(body), <<>>, Append(acc, cur))
         ELSE IF Head(body).c \in {"\r", "\n"}
              THEN split_rows(Tail(body), cur, acc)
              ELSE split_rows(Tail(body), Append(cur, Head(body).c), acc)

FrameRows(f) == split_rows(SubSeq(f, 3, Len(f) - 2), <<>>, <<>>)

\* whether a row's text is the greeting, cut to the window's width, after
\* nothing but markers and spaces
ShowsGreeting(row, cols) ==
    LET g == SubSeq(greeting_text, 1, Min(Len(greeting_text), cols))
    IN  /\ Len(row) >= Len(g)
        /\ SubSeq(row, Len(row) - Len(g) + 1, Len(row)) = g
        /\ \A i \in 1..(Len(row) - Len(g)) : row[i] \in {"~", " "}

\* C13: in every frame written, with row_count = 0 the greeting is on
\* physical row screen_rows / 3 and every other row is the single marker
\* '~'; with row_count > 0 no row shows the greeting.
GreetingRow ==
    pc = "poll" =>
        LET rows == FrameRows(written[1])
        IN  \A j \in 1..Len(rows) :
              IF number_of_rows = 0
              THEN IF j - 1 = screen_rows \div 3
                   THEN ShowsGreeting(rows[j], screen_cols)
                   ELSE rows[j] = <<"~">>
              ELSE ~ShowsGreeting(rows[j], screen_cols)

\* a frame with the padded greeting on row 1 of 3, after a command
GreetingRowWitness ==
    /\ pc = "poll"
    /\ number_of_rows = 0
    /\ screen_rows = 3
    /\ screen_cols > Len(greeting_text)
    /\ last_cmd = "BottomScreen"
    /\ FrameRows(written[1])[2] = <<"~", " ">> \o greeting_text
    /\ FrameRows(written[1])[1] = <<"~">>

\* the row section of a frame
RowSection(f) == SubSeq(f, 3, Len(f) - 2)

\* C14: the row section of every frame written has exactly screen_rows
\* clear-to-end-of-line sequences, one closing each row; a line break
\* ("\r\n") follows each of them except the last, which ends the section;
\* so there are exactly screen_rows - 1 line breaks.
RowsAndBreaks ==
    pc = "poll" =>
        LET body == RowSection(written[1])
            clears == {i \in 1..Len(body) : body[i] = ClearUntilNewLine}
            crs == {i \in 1..Len(body) : body[i] = Ch("\r")}
            lfs == {i \in 1..Len(body) : body[i] = Ch("\n")}
        IN  /\ Len(FrameRows(written[1])) = screen_rows
            /\ Cardinality(clears) = screen_rows
            /\ Cardinality(crs) = screen_rows - 1
            /\ Cardinality(lfs) = screen_rows - 1
            /\ Len(body) \in clears
            /\ \A i \in clears : i < Len(body) => body[i + 1] = Ch("\r")
            /\ \A i \in crs : /\ i > 1 /\ i < Len(body)
                              /\ body[i - 1] = ClearUntilNewLine
                              /\ body[i + 1] = Ch("\n")
            /\ \A i \in lfs : i > 1 /\ body[i - 1] = Ch("\r")

\* a frame of three rows was written
RowsAndBreaksWitness ==
    /\ pc = "poll"
    /\ screen_rows = 3
    /\ number_of_rows > 0
    /\ Cardinality({i \in 1..Len(RowSection(written[1])) :
                      RowSection(written[1])[i] = Ch("\n")}) = 2

\* C15: physical row j of a frame shows the first min(length, screen_cols)
\* characters of logical row j + row_offset when that row exists, and no
\* buffer content otherwise.
RowsShowCharacterPrefix ==
    pc = "poll" =>
        LET rows == FrameRows(written[1])
        IN  \A j \in 0..(screen_rows - 1) :
              IF j + row_offset < number_of_rows
              THEN LET line == row_contents[j + row_offset + 1]
                   IN  rows[j + 1] = SubSeq(line, 1, Min(Len(line), screen_cols))
              ELSE \/ rows[j + 1] = <<"~">>
                   \/ ShowsGreeting(rows[j + 1], screen_cols)

\* C16 as stated: with row_count >= 1 and only MoveDown and MoveUp applied,
\* cursor_y is the index of an existing row.
CursorOnExistingRow ==
    (number_of_rows >= 1 /\ history \in {"down", "updown"}) =>
        cursor_y <= number_of_rows - 1

\* C16, amended: with row_count >= 1 and only MoveDown and MoveUp applied,
\* cursor_y <= row_count (one past the last row's index at most).
CursorAtMostRowCount ==
    (number_of_rows >= 1 /\ history \in {"down", "updown"}) =>
        cursor_y <= number_of_rows

\* after MoveUp and MoveDown the cursor is one past the last row
CursorAtMostRowCountWitness ==
    /\ number_of_rows >= 1
    /\ history = "updown"
    /\ last_cmd = "Down"
    /\ cursor_y = number_of_rows

ViewportWithinBuffer ==
    /\ Running => cursor_y <= Max(number_of_rows, screen_rows - 1)
    /\ Rendered => row_offset <= number_of_rows

\* JumpBottom on a buffer shorter than the screen, rendered
ViewportWithinBufferWitness ==
    /\ pc = "flush"
    /\ last_cmd = "BottomScreen"
    /\ number_of_rows < screen_rows - 1
    /\ cursor_y = screen_rows - 1
    /\ row_offset = 0

\* whether the cursor's row is inside the window
InWindow(cc) ==
    /\ cc.row_offset <= cc.cursor_y
    /\ cc.cursor_y < cc.row_offset + cc.screen_rows

\* C20: the scroll() of a render leaves row_offset alone when the cursor's
\* row is inside the window (so after a Noop or a horizontal command), never
\* changes cursor_x or cursor_y, and a second scroll() would change nothing.
ScrollOnlyWhenNeeded ==
    [][(pc = "refresh_screen" /\ pc' = "flush") =>
          /\ InWindow(cursor_controller) => row_offset' = row_offset
          /\ last_cmd \in {"Noop", "Left", "Right", "Home", "End"} =>
                row_offset' = row_offset
          /\ cursor_x' = cursor_x
          /\ cursor_y' = cursor_y
          /\ scroll(cursor_controller') = cursor_controller']_vars

\* a frame composed after a Noop with the cursor inside a scrolled window,
\* above its last row
ScrollOnlyWhenNeededWitness ==
    /\ pc = "flush"
    /\ last_cmd = "Noop"
    /\ row_offset > 0
    /\ cursor_y < row_offset + screen_rows - 1

\* C18: the column handed to the final cursor placement of a frame is
\* cursor_x itself, whatever MoveRight has made it.
ColumnUnclamped ==
    pc = "flush" => editor_contents[Len(editor_contents) - 1].x = cursor_x

====
